---- MODULE Spec2Model ----
(***************************************************************************)
(* Fund-distribution pipeline of AutoSepolia: balance gate, allocation     *)
(* planning, transaction building, submission with confirmation polling,   *)
(* and the per-account status fold.                                        *)
(*                                                                         *)
(* Units.  TLC integers are 32 bit, so amounts are counted in szabo        *)
(* (10^12 wei), gas prices in gwei and gas in thousands of gas units:      *)
(* price * GasLimit is then a fee in szabo, exactly as gasPrice * 21000 is *)
(* a fee in wei.  JavaScript numbers are IEEE doubles; they are modelled   *)
(* by binary floating point with MantissaBits bits of mantissa and         *)
(* round-to-nearest-even, so that the ratio between the smallest amount    *)
(* unit and the float precision is the one of the program (0.005 ether is  *)
(* 5 * 10^15 wei, between 2^52 and 2^53; here 5000 szabo, between 2^12 and *)
(* 2^13).                                                                  *)
(***************************************************************************)
EXTENDS Integers, Sequences, FiniteSets, TLC

\* ------------------------------------------------------------------ bounds
MaxKeys == 2
MaxDests == 2
MaxInstructions == 4
MantissaBits == 13
MaxClock == 3
MaxQuotes == 2
MaxDeposits == 1
MaxLookups == 3
MaxLatency == 1

\* --------------------------------------------------------------- constants
WeiPerEther == 1000000
GasLimit == 21
MinBalanceWei == 5000
PriorityFeeGwei == 2
MinReducedWei == 1000
CacheDuration == 2
MinGasPrice == 8
\* The fixed gas reserves of transferFunds: 0.003 ether ("retrying"), 0.002
\* ether ("script").
RetryGasReserve == 3000
ScriptGasReserve == 2000
\* waitForTransaction as sendPreparedTransaction calls it, in seconds: the
\* timeout, the sleep after a poll without receipt, the sleep after an error.
WaitTimeout == 30
PollInterval == 3
ErrorInterval == 5

\* ---------------------------------------------------- floating point layer
\* A float is <<m, e>> standing for m * 2^e, with m = 0 or
\* 2^(MantissaBits-1) <= m < 2^MantissaBits.
RECURSIVE Pow2(_)
Pow2(n) == IF n = 0 THEN 1 ELSE 2 * Pow2(n - 1)

MantLo == Pow2(MantissaBits - 1)
MantHi == Pow2(MantissaBits)

\* Round half to even of the mantissa m with remainder r out of d.
RoundEven(m, r, d) ==
    IF 2 * r > d \/ (2 * r = d /\ m % 2 = 1) THEN m + 1 ELSE m

Renorm(m, e) == IF m = MantHi THEN <<MantLo, e + 1>> ELSE <<m, e>>

\* Long division, left shifts: ip is the integer part so far (< MantLo),
\* r the remainder out of den, e the (non-positive) exponent.
RECURSIVE ShiftLeft(_, _, _, _)
ShiftLeft(ip, r, den, e) ==
    IF ip >= MantLo
    THEN Renorm(RoundEven(ip, r, den), e)
    ELSE ShiftLeft(2 * ip + (IF 2 * r >= den THEN 1 ELSE 0),
                   (2 * r) % den, den, e - 1)

\* Right shifts: ip >= MantHi is cut down; lost is TRUE when a non-zero
\* part below the half bit was dropped (sticky), half is the last bit cut.
RECURSIVE ShiftRight(_, _, _, _)
ShiftRight(ip, half, lost, e) ==
    IF ip < MantHi
    THEN Renorm(IF half = 1 /\ (lost \/ ip % 2 = 1) THEN ip + 1 ELSE ip, e)
    ELSE ShiftRight(ip \div 2, ip % 2, lost \/ half = 1, e + 1)

\* The double nearest to the rational num / den (num >= 0, den > 0).
FRound(num, den) ==
    IF num = 0 THEN <<0, 0>>
    ELSE LET ip == num \div den
             r  == num % den
         IN IF ip >= MantHi THEN ShiftRight(ip, 0, r # 0, 0)
            ELSE ShiftLeft(ip, r, den, 0)

FMul(a, b) ==
    IF a[1] = 0 \/ b[1] = 0 THEN <<0, 0>>
    ELSE LET p == FRound(a[1] * b[1], 1) IN <<p[1], p[2] + a[2] + b[2]>>

FDiv(a, b) ==
    IF a[1] = 0 THEN <<0, 0>>
    ELSE LET q == FRound(a[1], b[1]) IN <<q[1], q[2] + a[2] - b[2]>>

\* Math.floor followed by BigInt(): the integer part of a float.
FFloor(a) ==
    IF a[1] = 0 THEN 0
    ELSE IF a[2] >= 0 THEN a[1] * Pow2(a[2])
    ELSE IF 0 - a[2] >= MantissaBits THEN 0
    ELSE a[1] \div Pow2(0 - a[2])

\* a >= b on floats (both normalised, non-negative).
FGe(a, b) ==
    IF b[1] = 0 THEN TRUE
    ELSE IF a[1] = 0 THEN FALSE
    ELSE IF a[2] # b[2] THEN a[2] > b[2]
    ELSE a[1] >= b[1]

\* ------------------------------------------------------------ environment
GasSpeeds == {"slow", "average", "fast"}
DistributionMethods == {"equal", "percentage", "custom"}

\* Answers of provider.getBalance: a balance in szabo, or a transport failure.
BalanceValues == {4999, 5000, 1000020}
ReadFailed == 0 - 1
\* No read was made.
NotRead == 0 - 2
BalanceReads == BalanceValues \cup {ReadFailed}

\* Answers of provider.getFeeData: <<"ok", maxFeePerGas, gasPrice>> in gwei
\* with 0 for an absent (null) field, or a failure of the call.
FeeDataValues == {<<"throw", 0, 0>>, <<"ok", 0, 0>>, <<"ok", 10, 9>>, <<"ok", 0, 200>>}

\* Answers of the Etherscan gas oracle: "null" (HTTP error, status # "1",
\* exception) or <<"ok", SafeGasPrice, ProposeGasPrice, FastGasPrice>>.
EtherscanValues == {<<"null", 0, 0, 0>>, <<"ok", 6, 12, 160>>}

\* The same, with an answer of status "1" whose prices are no decimal
\* numbers ("bad": ethers.parseUnits throws on them) and a second good one.
OracleAnswers == EtherscanValues \cup {<<"bad", 0, 0, 0>>, <<"ok", 7, 14, 28>>}

\* What a call that threw leaves instead of a price.
Thrown == 0 - 1

\* Answers of provider.getTransactionCount(address, "pending").
NonceValues == {0, 7}

\* Destination weights in hundredths of a percent (7000 is 70%).
WeightValues == {3000, 5000, 7000, 10000}

\* The batch pipeline keeps whole lists of records per account, so its
\* environment answers with one value of each kind: a failed read, a balance
\* under the minimum, a balance above it; one fee answer; one pending count.
BatchBalanceReads == {ReadFailed, 4999, 5000}
BatchRereads == {ReadFailed, 3000}
BatchFeeData == {<<"ok", 10, 9>>, <<"ok", 0, 150>>}
BatchEtherscan == {<<"null", 0, 0, 0>>}
BatchNonceReads == {ReadFailed, 7}
BatchWeights == {2000}
BatchSettings == {<<"equal", "average">>, <<"percentage", "fast">>, <<"custom", "slow">>}

RECURSIVE SeqsUpTo(_, _)
SeqsUpTo(S, n) ==
    IF n = 0 THEN {<<>>}
    ELSE LET shorter == SeqsUpTo(S, n - 1)
         IN shorter \cup {Append(q, x) : q \in {t \in shorter : Len(t) = n - 1}, x \in S}

RECURSIVE SumSeq(_)
SumSeq(q) == IF q = <<>> THEN 0 ELSE Head(q) + SumSeq(Tail(q))

\* --------------------------------------------------------------- FeeOracle
SpeedMultiplier(speed) ==
    CASE speed = "slow" -> FRound(8, 10)
      [] speed = "fast" -> FRound(13, 10)
      [] OTHER -> FRound(1, 1)

DefaultGasPrice(speed) ==
    CASE speed = "slow" -> 20
      [] speed = "fast" -> 50
      [] OTHER -> 35

EtherscanPrice(eth, speed) ==
    CASE speed = "slow" -> eth[2]
      [] speed = "fast" -> eth[4]
      [] OTHER -> eth[3]

\* The try block of getGasPrice: provider fee data first, then the Etherscan
\* oracle, then the default table; Thrown when getFeeData or parseUnits throws.
getGasPriceTry(fee, eth, speed) ==
    IF fee[1] = "throw" THEN Thrown
    ELSE IF fee[2] # 0 THEN FFloor(FMul(FRound(fee[2], 1), SpeedMultiplier(speed)))
    ELSE IF fee[3] # 0 THEN FFloor(FMul(FRound(fee[3], 1), SpeedMultiplier(speed)))
    ELSE IF eth[1] = "bad" THEN Thrown
    ELSE IF eth[1] # "null" THEN EtherscanPrice(eth, speed)
    ELSE DefaultGasPrice(speed)

\* The source of the price getGasPrice returns: the provider's fee data, the
\* Etherscan answer, or the default table (of the try block or of the catch).
PriceSource(fee, eth) ==
    IF fee[1] = "throw" THEN "table"
    ELSE IF fee[2] # 0 \/ fee[3] # 0 THEN "network"
    ELSE IF eth[1] = "ok" THEN "oracle"
    ELSE "table"

\* A getGasPrice whose catch block throws the error on.
getGasPriceRethrow(fee, eth, speed) == getGasPriceTry(fee, eth, speed)

\* getGasPrice: any exception ends in the default table.
getGasPrice(fee, eth, speed) ==
    IF getGasPriceTry(fee, eth, speed) = Thrown THEN DefaultGasPrice(speed)
    ELSE getGasPriceTry(fee, eth, speed)

\* getEtherscanGasPrice at time now, the oracle answering `answer` if asked:
\* the cached answer inside the cache window, else a fetch whose answer is
\* cached when its status is "1".
getEtherscanGasPrice(cached, last, now, answer) ==
    IF cached[1] # "null" /\ now - last < CacheDuration
    THEN [data |-> cached, cached |-> cached, last |-> last, fetched |-> FALSE]
    ELSE IF answer[1] = "null"
    THEN [data |-> answer, cached |-> cached, last |-> last, fetched |-> TRUE]
    ELSE [data |-> answer, cached |-> answer, last |-> now, fetched |-> TRUE]

\* ------------------------------------------------------------- BalanceGate
\* Number.parseFloat(ethers.formatEther(balance)): the double nearest to
\* balance / 10^18 ether.
BalanceEth(balance) == FRound(balance, WeiPerEther)

\* The literal 0.005.
MinBalanceEth == FRound(5, 1000)

\* A gate that lets every balance through.
HasSufficientBalanceAlways(balance) == TRUE

\* A gate that compares with > instead of >=.
HasSufficientBalanceStrict(balance) == ~FGe(MinBalanceEth, BalanceEth(balance))

HasSufficientBalance(balance) == FGe(BalanceEth(balance), MinBalanceEth)

\* checkWalletBalance: never throws; a failed read is reported in `error`.
checkWalletBalance(read) ==
    IF read = ReadFailed
    THEN [error |-> TRUE, balance |-> 0, hasSufficientBalance |-> FALSE]
    ELSE [error |-> FALSE, balance |-> read,
          hasSufficientBalance |-> HasSufficientBalance(read)]

\* ------------------------------------------- AllocationPlanner and builder
\* The percentage handed to prepareTransaction, as a double.
PercentageOf(dests, k, method) ==
    IF method = "equal" THEN FDiv(FRound(100, 1), FRound(Len(dests), 1))
    ELSE FRound(dests[k], 100)

\* A resolution without the ceiling.
ResolveGasPriceUnclamped(fee1, fee2, eth, speed) ==
    LET first == getGasPrice(fee1, eth, speed)
        slower == getGasPrice(fee2, eth, "slow")
    IN IF first > 100 /\ speed # "slow" /\ slower < (first * 80) \div 100
       THEN slower ELSE first

\* Gas price resolution of prepareTransaction: the requested speed, the slow
\* price when the first is above 100 gwei and slow is under 80% of it, and
\* the fixed 50 gwei above 150 gwei or when a getGasPrice call throws.
ResolveGasPrice(fee1, fee2, eth, speed) ==
    LET first == getGasPrice(fee1, eth, speed)
        slower == getGasPrice(fee2, eth, "slow")
        asked == first > 100 /\ speed # "slow"
        chosen == IF asked /\ slower < (first * 80) \div 100 THEN slower ELSE first
    IN IF first = Thrown \/ (asked /\ slower = Thrown) THEN 50
       ELSE IF chosen > 150 THEN 50 ELSE chosen

GasReserve(gasPrice, n) == (gasPrice * GasLimit * n * 12) \div 10

AvailableAmount(balance, gasPrice, n) == balance - GasReserve(gasPrice, n)

\* BigInt(Math.floor(Number(availableAmount) * (percentage / 100)))
AmountForWallet(available, percentage) ==
    FFloor(FMul(FRound(available, 1), FDiv(percentage, FRound(100, 1))))

\* Every instruction given the start nonce.
NonceForSame(nonce, k) == nonce

NonceFor(nonce, k) == nonce + (k - 1)

BuildTx(available, gasPrice, nonce, dests, method, k) ==
    [to |-> k,
     value |-> AmountForWallet(available, PercentageOf(dests, k, method)),
     maxFeePerGas |-> gasPrice,
     maxPriorityFeePerGas |-> PriorityFeeGwei,
     nonce |-> NonceFor(nonce, k)]

PlannerBalanceTooLow(balance) == balance < MinBalanceWei

\* prepareTransaction: ReadFailed stands for a throw of provider.getBalance
\* or of provider.getTransactionCount.
prepareTransaction(read, gasPrice, nonce, dests, method) ==
    IF read = ReadFailed THEN [ok |-> FALSE, error |-> "balance read failed", txs |-> <<>>]
    ELSE IF PlannerBalanceTooLow(read)
    THEN [ok |-> FALSE, error |-> "Balance too low to transfer", txs |-> <<>>]
    ELSE IF AvailableAmount(read, gasPrice, Len(dests)) <= 0
    THEN [ok |-> FALSE, error |-> "Not enough balance to cover transfers after gas costs",
          txs |-> <<>>]
    ELSE IF nonce = ReadFailed
    THEN [ok |-> FALSE, error |-> "transaction count read failed", txs |-> <<>>]
    ELSE [ok |-> TRUE, error |-> "",
          txs |-> [k \in 1..Len(dests) |->
                     BuildTx(AvailableAmount(read, gasPrice, Len(dests)),
                             gasPrice, nonce, dests, method, k)]]

\* The fixed reserve of the earlier prepareTransaction: 0.003 ether for each
\* destination.
FixedGasReserve == 3000

\* prepareTransaction of gas-price.ts: the reserve does not depend on the gas
\* price, which is read after the pool check and used as getGasPrice gave
\* it; the weights are the destinations' percentages.
prepareTransactionFixedReserve(read, gasPrice, nonce, dests) ==
    IF read = ReadFailed THEN [ok |-> FALSE, error |-> "balance read failed", txs |-> <<>>]
    ELSE IF PlannerBalanceTooLow(read)
    THEN [ok |-> FALSE, error |-> "Balance too low to transfer", txs |-> <<>>]
    ELSE IF read - FixedGasReserve * Len(dests) <= 0
    THEN [ok |-> FALSE, error |-> "Not enough balance to cover transfers after gas costs",
          txs |-> <<>>]
    ELSE IF nonce = ReadFailed
    THEN [ok |-> FALSE, error |-> "transaction count read failed", txs |-> <<>>]
    ELSE [ok |-> TRUE, error |-> "",
          txs |-> [k \in 1..Len(dests) |->
                     BuildTx(read - FixedGasReserve * Len(dests), gasPrice, nonce,
                             dests, "percentage", k)]]

\* --------------------------------------------------------------- Submitter
\* What waitForTransaction returns.  how is "receipt" (a receipt was read;
\* status is the receipt's), "found" (timed out, the final getTransaction
\* still finds the transaction) or "missing" (timed out, not found).
waitForTransaction(how, status) ==
    CASE how = "receipt" -> [status |-> status, blockNumber |-> 1, timeout |-> FALSE]
      [] how = "found" -> [status |-> 1, blockNumber |-> 0, timeout |-> FALSE]
      [] OTHER -> [status |-> 2, blockNumber |-> 0, timeout |-> TRUE]

\* The record sendPreparedTransaction pushes after a broadcast and a wait.
\* via and receiptStatus are history only: how the wait ended and the status
\* of what it returned.
SentOutcome(receipt, amount, how) ==
    IF receipt.timeout
    THEN [success |-> TRUE, pending |-> TRUE, blockNumber |-> 0,
          amount |-> amount, error |-> "", via |-> how, receiptStatus |-> receipt.status]
    ELSE [success |-> TRUE, pending |-> FALSE, blockNumber |-> receipt.blockNumber,
          amount |-> amount, error |-> "", via |-> how, receiptStatus |-> receipt.status]

FailedOutcome(msg) ==
    [success |-> FALSE, pending |-> FALSE, blockNumber |-> 0,
     amount |-> 0, error |-> msg, via |-> "none", receiptStatus |-> 2]

\* A reduction to half of the amount.
ReducedAmountHalf(amount) == amount \div 2

\* The amount of the retry: 90% of the prepared amount, rounded down.
ReducedAmount(amount) == (amount * 90) \div 100

AnySuccess(txs) == \E k \in 1..Len(txs) : txs[k].success

\* ------------------------------------------------------------------- state
VARIABLES
    privateKeys,          \* input: "" is a blank key
    destinationWallets,   \* input: the weights of the destinations
    distributionMethod,   \* input
    gasSpeed,             \* input
    rpcConfigured,        \* INFURA_PROJECT_ID is set
    caller,               \* "handler" (handleStartTransfer) or "direct"
    pc,                   \* "prepare", "execute", "wait", "resend", "done"
    i,                    \* index of the account in the running loop
    preparedData,         \* result list of prepareTransferTransactions
    results,              \* result list of executeTransactions / startTransfer
    j,                    \* index of the instruction being sent
    txResults,            \* outcomes of the account being executed
    inflight,             \* the broadcast being waited for
    broadcasts,           \* history: every wallet.sendTransaction call and its fate
    planLog,              \* history: what was read from the network for each account
    outcomes,             \* history: the outcomes of each executed account
    ui,                   \* handler: "racing", "rejected", "timedOut", "returned"
    handed,               \* handler: the result list handed to the page
    requests,             \* history: server action calls the browser posted
    args,                 \* single calls: the arguments and environment answers
    ret,                  \* single calls: the function applied and its result
    cachedEtherscanGasPrice,  \* fee oracle: the cached Etherscan answer
    lastEtherscanFetch,   \* fee oracle: when it was cached
    clock,                \* fee oracle: Date.now(), in minutes
    quotes,               \* fee oracle, history: the getGasPrice calls made
    lookups,              \* fee oracle: the getEtherscanGasPrice calls, running and ended
    transfer,             \* transferFunds: the call and the account's pending count
    tfAttempt,            \* transferFunds: attempt, the index of the retry loop
    tfNonce,              \* transferFunds: nonce, NotRead while it is null
    tfLastError,          \* transferFunds: lastError
    tfPc,                 \* transferFunds: "idle", "start", "loop", "wait", "returned", "thrown"
    sends,                \* transferFunds, history: every wallet.sendTransaction call
    mined,                \* transferFunds, history: the sends the network has mined
    funds,                \* transferFunds: the account's balance on the chain
    deposits,             \* transferFunds: the number of deposits received meanwhile
    wPc,                  \* polling: "idle", "send", "first", "poll", "final", "done"
    wElapsed,             \* polling: Date.now() - startTime, in seconds
    wLast,                \* polling, history: the answer to the last poll
    wTodo,                \* polling: the instructions still to send
    wResults              \* polling: results of sendPreparedTransaction

vars == <<privateKeys, destinationWallets, distributionMethod, gasSpeed,
          rpcConfigured, caller, pc, i, preparedData, results, j, txResults,
          inflight, broadcasts, planLog, outcomes, ui, handed, requests, args, ret,
          cachedEtherscanGasPrice, lastEtherscanFetch, clock, quotes, lookups,
          transfer, tfAttempt, tfNonce, tfLastError, tfPc, sends, mined, funds,
          deposits, wPc, wElapsed, wLast, wTodo, wResults>>

waitState == <<wPc, wElapsed, wLast, wTodo, wResults>>

chain == <<mined, funds, deposits>>

retryState == <<transfer, tfAttempt, tfNonce, tfLastError, tfPc, sends, chain>>

feeState == <<cachedEtherscanGasPrice, lastEtherscanFetch, clock, quotes, lookups>>

\* What no step of a batch changes.
inputs == <<privateKeys, destinationWallets, distributionMethod, gasSpeed,
            rpcConfigured, caller, requests, args, ret, feeState, retryState, waitState>>

Rec(status, balance, error, hasPrepared, txs) ==
    [status |-> status, balance |-> balance, error |-> error,
     hasPrepared |-> hasPrepared, preparedTransactions |-> txs]

NoInflight == [attempt |-> 0, amount |-> 0]

NoPlan == [gate |-> ReadFailed, planned |-> FALSE, planRead |-> ReadFailed,
           gasPrice |-> 0, nonce |-> 0, reread |-> NotRead]

\* The page's check of the weights (exact here: the weights are whole
\* percents, which doubles add without error).
PercentagesValid(dests) ==
    LET d == SumSeq(dests) - 10000 IN d <= 1 /\ 0 - d <= 1

\* What handleStartTransfer lets through to startTransfer.
HandlerAccepts(keys, dests, method) ==
    /\ dests # <<>>
    /\ \A k \in 1..Len(keys) : keys[k] # ""
    /\ method = "percentage" => PercentagesValid(dests)

NoArgs == [balance |-> 0]
NoRet == [op |-> "none"]

\* The module state of gas-price.ts when it is loaded.
FeeIdle ==
    /\ cachedEtherscanGasPrice = <<"null", 0, 0, 0>>
    /\ lastEtherscanFetch = 0
    /\ clock = 0
    /\ quotes = <<>>
    /\ lookups = <<>>

\* No transferFunds call is running.
NoTransfer == [revision |-> "none", gasSpeed |-> "average", balance |-> 0, pending |-> 0]

TransferIdle ==
    /\ transfer = NoTransfer
    /\ tfAttempt = 0
    /\ tfNonce = NotRead
    /\ tfLastError = ""
    /\ tfPc = "idle"
    /\ sends = <<>>
    /\ mined = {}
    /\ funds = 0
    /\ deposits = 0

\* No polling sendPreparedTransaction call is running.
WaitIdle ==
    /\ wPc = "idle"
    /\ wElapsed = 0
    /\ wLast = "none"
    /\ wTodo = 0
    /\ wResults = <<>>

Init ==
    /\ TransferIdle
    /\ WaitIdle
    /\ privateKeys \in SeqsUpTo({"", "key"}, MaxKeys) \ {<<>>}
    /\ destinationWallets \in SeqsUpTo(BatchWeights, MaxDests)
    /\ Len(privateKeys) * Len(destinationWallets) <= MaxInstructions
    /\ args = NoArgs
    /\ ret = NoRet
    /\ FeeIdle
    /\ \E setting \in BatchSettings :
         distributionMethod = setting[1] /\ gasSpeed = setting[2]
    /\ rpcConfigured \in BOOLEAN
    /\ caller \in {"handler", "direct"}
    /\ caller = "handler" => \A k \in 1..Len(privateKeys) : privateKeys[k] # ""
    /\ pc = "prepare"
    /\ i = 1
    /\ preparedData = <<>>
    /\ results = <<>>
    /\ j = 1
    /\ txResults = <<>>
    /\ inflight = NoInflight
    /\ broadcasts = <<>>
    /\ planLog = <<>>
    /\ outcomes = <<>>
    /\ ui = "racing"
    /\ handed = <<>>
    /\ requests = <<>>

\* The call of a server action ("use server") as the browser posts it: the
\* name of the action and the private keys among its arguments.
ServerCall(fn, keys) == [fn |-> fn, privateKeys |-> keys]

\* handleStartTransfer after its checks: one checkWalletBalance call per
\* valid wallet, then the startTransfer call, all of them server actions.
HandlerCalls ==
    [k \in 1..Len(privateKeys) |-> ServerCall("checkWalletBalance", <<privateKeys[k]>>)]
        \o <<ServerCall("startTransfer", privateKeys)>>

\* startTransfer is called: directly, or by a handler whose checks passed.
Entered ==
    caller = "handler" =>
        /\ HandlerAccepts(privateKeys, destinationWallets, distributionMethod)
        /\ requests # <<>>

HandlerCall ==
    /\ caller = "handler" /\ ui = "racing"
    /\ HandlerAccepts(privateKeys, destinationWallets, distributionMethod)
    /\ requests = <<>>
    /\ requests' = HandlerCalls
    /\ UNCHANGED <<privateKeys, destinationWallets, distributionMethod, gasSpeed,
                   rpcConfigured, caller, args, ret, feeState, retryState, waitState, pc, i,
                   preparedData,
                   results, j, txResults, inflight, broadcasts, planLog, outcomes,
                   ui, handed>>

\* ------------------------------------------------ startTransfer, step 1
\* A startTransfer without its catch: the error of getRpcEndpoint leaves the
\* caller without a result list.
StartTransferNoRpcUncaught ==
    /\ Entered
    /\ pc = "prepare" /\ i = 1 /\ ~rpcConfigured
    /\ results' = <<>>
    /\ pc' = "done"
    /\ UNCHANGED <<inputs, i, preparedData, j, txResults, inflight, broadcasts,
                   planLog, outcomes, ui, handed>>

\* getRpcEndpoint throws: startTransfer's catch answers one error per key.
StartTransferNoRpc ==
    /\ Entered
    /\ pc = "prepare" /\ i = 1 /\ ~rpcConfigured
    /\ results' = [k \in 1..Len(privateKeys) |->
                     Rec("error", 0, "INFURA_PROJECT_ID is not set", FALSE, <<>>)]
    /\ pc' = "done"
    /\ UNCHANGED <<inputs, i, preparedData, j, txResults, inflight, broadcasts,
                   planLog, outcomes, ui, handed>>

\* prepareTransferTransactions with no destination: one record, whatever
\* the number of keys.
PrepareNoDestinations ==
    /\ Entered
    /\ pc = "prepare" /\ i = 1 /\ rpcConfigured
    /\ destinationWallets = <<>>
    /\ preparedData' = <<Rec("error", 0, "No destination wallets provided", FALSE, <<>>)>>
    /\ pc' = "execute"
    /\ UNCHANGED <<inputs, i, results, j, txResults, inflight, broadcasts,
                   planLog, outcomes, ui, handed>>

PrepareGuard ==
    /\ Entered
    /\ pc = "prepare" /\ rpcConfigured /\ destinationWallets # <<>>
    /\ i <= Len(privateKeys)

\* A preparation loop that stops at the first account that ends in error.
PrepareAdvanceAbort(rec, plan) ==
    /\ preparedData' = Append(preparedData, rec)
    /\ planLog' = Append(planLog, plan)
    /\ IF i = Len(privateKeys) \/ rec.status = "error"
       THEN pc' = "execute" /\ i' = 1
       ELSE pc' = "prepare" /\ i' = i + 1
    /\ UNCHANGED <<inputs, results, j, txResults, inflight, broadcasts,
                   outcomes, ui, handed>>

\* The loop of prepareTransferTransactions moves on; after the last key
\* executeTransactions starts at the first record.
PrepareAdvance(rec, plan) ==
    /\ preparedData' = Append(preparedData, rec)
    /\ planLog' = Append(planLog, plan)
    /\ IF i = Len(privateKeys)
       THEN pc' = "execute" /\ i' = 1
       ELSE pc' = "prepare" /\ i' = i + 1
    /\ UNCHANGED <<inputs, results, j, txResults, inflight, broadcasts,
                   outcomes, ui, handed>>

PrepareBlank ==
    /\ PrepareGuard
    /\ privateKeys[i] = ""
    /\ PrepareAdvance(Rec("idle", 0, "", FALSE, <<>>), NoPlan)

PrepareBalanceError ==
    /\ PrepareGuard
    /\ privateKeys[i] # ""
    /\ \E read \in BatchBalanceReads :
         /\ checkWalletBalance(read).error
         /\ PrepareAdvance(Rec("error", 0, "Error checking balance", FALSE, <<>>),
                           [NoPlan EXCEPT !.gate = read])

PrepareLowBalance ==
    /\ PrepareGuard
    /\ privateKeys[i] # ""
    /\ \E read \in BatchBalanceReads :
         LET check == checkWalletBalance(read) IN
         /\ ~check.error
         /\ ~check.hasSufficientBalance
         /\ PrepareAdvance(Rec("low_balance", check.balance, "Balance too low", FALSE, <<>>),
                           [NoPlan EXCEPT !.gate = read])

Plan(read2, fee1, fee2, eth, nonce) ==
    prepareTransaction(read2, ResolveGasPrice(fee1, fee2, eth, gasSpeed), nonce,
                       destinationWallets, distributionMethod)

PreparePlanned ==
    /\ PrepareGuard
    /\ privateKeys[i] # ""
    /\ \E read \in BatchBalanceReads, read2 \in BatchBalanceReads,
          fee1 \in BatchFeeData, fee2 \in BatchFeeData, eth \in BatchEtherscan,
          nonce \in BatchNonceReads :
         LET check == checkWalletBalance(read)
             plan == Plan(read2, fee1, fee2, eth, nonce)
         IN
         /\ ~check.error
         /\ check.hasSufficientBalance
         /\ plan.ok
         /\ PrepareAdvance(Rec("processing", check.balance, "", TRUE, plan.txs),
                           [gate |-> read, planned |-> TRUE, planRead |-> read2,
                            gasPrice |-> ResolveGasPrice(fee1, fee2, eth, gasSpeed),
                            nonce |-> nonce, reread |-> NotRead])

\* A catch that leaves the placeholder pushed before planning in place.
PlanFailedRecordKept(reread, msg) ==
    Rec("processing", IF reread = ReadFailed THEN 0 ELSE reread, msg, FALSE, <<>>)

\* The catch of prepareTransferTransactions: the placeholder of account i is
\* overwritten by an error record, with the balance if it can be read.
PlanFailedRecord(reread, msg) ==
    Rec("error", IF reread = ReadFailed THEN 0 ELSE reread, msg, FALSE, <<>>)

\* prepareTransaction throws: the catch re-reads the balance if it can.
PreparePlanFailed ==
    /\ PrepareGuard
    /\ privateKeys[i] # ""
    /\ \E read \in BatchBalanceReads, read2 \in BatchBalanceReads,
          fee1 \in BatchFeeData, fee2 \in BatchFeeData, eth \in BatchEtherscan,
          nonce \in BatchNonceReads, reread \in BatchRereads :
         LET check == checkWalletBalance(read)
             plan == Plan(read2, fee1, fee2, eth, nonce)
         IN
         /\ ~check.error
         /\ check.hasSufficientBalance
         /\ ~plan.ok
         /\ PrepareAdvance(PlanFailedRecord(reread, plan.error),
                           [gate |-> read, planned |-> FALSE, planRead |-> read2,
                            gasPrice |-> ResolveGasPrice(fee1, fee2, eth, gasSpeed),
                            nonce |-> nonce, reread |-> NotRead])

\* ------------------------------------------------ startTransfer, step 2
ExecuteGuard ==
    /\ pc = "execute"
    /\ i <= Len(preparedData)

Runnable(data) == data.hasPrepared /\ data.status = "processing"

\* The loop of executeTransactions moves on with the record of account i;
\* reread is the answer of the last getWalletBalance made for it, if any.
ExecuteAdvance(rec, txs, reread) ==
    /\ results' = Append(results, rec)
    /\ outcomes' = Append(outcomes, txs)
    /\ planLog' = IF i <= Len(planLog)
                  THEN [planLog EXCEPT ![i].reread = reread]
                  ELSE planLog
    /\ IF i = Len(preparedData)
       THEN pc' = "done" /\ i' = i
       ELSE pc' = "execute" /\ i' = i + 1
    /\ j' = 1
    /\ txResults' = <<>>
    /\ UNCHANGED <<inputs, preparedData, inflight, broadcasts, ui, handed>>

\* A record without prepared transactions is kept as it is.
ExecuteSkip ==
    /\ ExecuteGuard
    /\ ~Runnable(preparedData[i])
    /\ ExecuteAdvance(preparedData[i], <<>>, NotRead)

CurrentTx == preparedData[i].preparedTransactions[j]

SendGuard ==
    /\ ExecuteGuard
    /\ Runnable(preparedData[i])
    /\ j <= Len(preparedData[i].preparedTransactions)

\* A submission that swallows failures: only successes are recorded.
RecordOutcomeSwallow(outcome) ==
    /\ txResults' = IF outcome.success
                    THEN Append(txResults, [destination |-> CurrentTx.to] @@ outcome)
                    ELSE txResults
    /\ j' = j + 1
    /\ pc' = "execute"
    /\ inflight' = NoInflight

\* sendPreparedTransaction records an outcome, with the destination of the
\* instruction, and takes the next instruction.
RecordOutcome(outcome) ==
    /\ txResults' = Append(txResults, [destination |-> CurrentTx.to] @@ outcome)
    /\ j' = j + 1
    /\ pc' = "execute"
    /\ inflight' = NoInflight

\* One wallet.sendTransaction call: why is "" when the network accepted the
\* transaction, else the kind of error thrown.
Sent(attempt, value, why) ==
    [account |-> i, instruction |-> j, to |-> CurrentTx.to, nonce |-> CurrentTx.nonce,
     value |-> value, maxFeePerGas |-> CurrentTx.maxFeePerGas, attempt |-> attempt,
     accepted |-> why = "", why |-> why]

Accepted(attempt, value) == Sent(attempt, value, "")

\* A submission that does not await the confirmation: the next instruction
\* is taken as soon as the network accepted this one.
BroadcastAcceptedNoWait ==
    /\ SendGuard
    /\ broadcasts' = Append(broadcasts, Accepted(1, CurrentTx.value))
    /\ j' = j + 1
    /\ UNCHANGED <<inputs, i, pc, preparedData, results, txResults, inflight, planLog,
                   outcomes, ui, handed>>

\* wallet.sendTransaction(preparedTx.tx) is accepted by the network.
BroadcastAccepted ==
    /\ SendGuard
    /\ broadcasts' = Append(broadcasts, Accepted(1, CurrentTx.value))
    /\ inflight' = [attempt |-> 1, amount |-> CurrentTx.value]
    /\ pc' = "wait"
    /\ UNCHANGED <<inputs, i, preparedData, results, j, txResults, planLog,
                   outcomes, ui, handed>>

\* sendTransaction throws something other than "insufficient funds".
BroadcastRejected ==
    /\ SendGuard
    /\ broadcasts' = Append(broadcasts, Sent(1, CurrentTx.value, "rejected"))
    /\ RecordOutcome(FailedOutcome("rejected"))
    /\ UNCHANGED <<inputs, i, preparedData, results, planLog, outcomes, ui, handed>>

\* sendTransaction throws "insufficient funds": one retry with 90% of the
\* amount, unless that is below 0.001 ether.
BroadcastInsufficientFunds ==
    /\ SendGuard
    /\ IF ReducedAmount(CurrentTx.value) < MinReducedWei
       THEN RecordOutcome(FailedOutcome("Amount too small after reduction"))
       ELSE /\ pc' = "resend"
            /\ inflight' = [attempt |-> 2, amount |-> ReducedAmount(CurrentTx.value)]
            /\ UNCHANGED <<j, txResults>>
    /\ broadcasts' = Append(broadcasts, Sent(1, CurrentTx.value, "insufficient funds"))
    /\ UNCHANGED <<inputs, i, preparedData, results, planLog, outcomes, ui, handed>>

ResendAccepted ==
    /\ pc = "resend"
    /\ broadcasts' = Append(broadcasts, Accepted(2, inflight.amount))
    /\ pc' = "wait"
    /\ UNCHANGED <<inputs, i, preparedData, results, j, txResults, inflight,
                   planLog, outcomes, ui, handed>>

ResendRejected ==
    /\ pc = "resend"
    /\ broadcasts' = Append(broadcasts, Sent(2, inflight.amount, "rejected"))
    /\ RecordOutcome(FailedOutcome("Insufficient funds even after reducing amount"))
    /\ UNCHANGED <<inputs, i, preparedData, results, planLog, outcomes, ui, handed>>

WaitReturns(how, status) ==
    /\ RecordOutcome(SentOutcome(waitForTransaction(how, status), inflight.amount, how))
    /\ UNCHANGED <<inputs, i, preparedData, results, broadcasts, planLog,
                   outcomes, ui, handed>>

\* waitForTransaction ends with a receipt read before the timeout; its
\* status is 1 (mined) or 0 (failed on chain).
WaitReceipt ==
    /\ pc = "wait"
    /\ \E status \in {0, 1} : WaitReturns("receipt", status)

\* Timed out; the final getTransaction still finds the transaction.
TimeoutFound ==
    /\ pc = "wait"
    /\ WaitReturns("found", 1)

\* Timed out; the transaction is not found (or getTransaction fails).
TimeoutMissing ==
    /\ pc = "wait"
    /\ WaitReturns("missing", 2)

FoldGuard ==
    /\ ExecuteGuard
    /\ Runnable(preparedData[i])
    /\ j > Len(preparedData[i].preparedTransactions)

\* A catch that reports the balance the gate had read.
CaughtRecordStale(reread, msg) ==
    Rec("error", preparedData[i].balance, msg, FALSE, <<>>)

\* The catch of executeTransactions: status error, with the balance if it
\* can be read.
CaughtRecord(reread, msg) ==
    Rec("error", IF reread = ReadFailed THEN 0 ELSE reread, msg, FALSE, <<>>)

\* A fold that reports success without looking at the outcomes.
FoldStatusUnchecked(txs, reread) ==
    IF reread = ReadFailed THEN "throw" ELSE "success"

FoldStatus(txs, reread) ==
    IF ~AnySuccess(txs) THEN "throw"
    ELSE IF reread = ReadFailed THEN "throw"
    ELSE "success"

FoldSuccess ==
    /\ FoldGuard
    /\ \E reread \in BatchRereads :
         /\ FoldStatus(txResults, reread) = "success"
         /\ ExecuteAdvance(Rec("success", reread, "", FALSE, <<>>), txResults, reread)

FoldAllFailed ==
    /\ FoldGuard
    /\ ~AnySuccess(txResults)
    /\ \E reread \in BatchRereads :
         /\ FoldStatus(txResults, reread) = "throw"
         /\ ExecuteAdvance(CaughtRecord(reread, "All transfers failed"), txResults, reread)

\* A transfer succeeded but getWalletBalance throws: the same catch.
FoldRereadFailed ==
    /\ FoldGuard
    /\ AnySuccess(txResults)
    /\ \E reread \in BatchRereads, reread2 \in BatchRereads :
         /\ FoldStatus(txResults, reread) = "throw"
         /\ ExecuteAdvance(CaughtRecord(reread2, "balance read failed"), txResults, reread2)

\* ------------------------------------------------- handleStartTransfer
\* A check of handleStartTransfer fails: a toast, and startTransfer is not
\* called.
HandlerReject ==
    /\ caller = "handler" /\ ui = "racing"
    /\ ~HandlerAccepts(privateKeys, destinationWallets, distributionMethod)
    /\ ui' = "rejected"
    /\ UNCHANGED <<inputs, pc, i, preparedData, results, j, txResults, inflight,
                   broadcasts, planLog, outcomes, handed>>

\* The 5 minute timer wins the race against startTransfer: every wallet is
\* handed over as processing; startTransfer itself keeps running.
HandlerTimeout ==
    /\ caller = "handler" /\ ui = "racing"
    /\ Entered
    /\ pc # "done"
    /\ ui' = "timedOut"
    /\ handed' = [k \in 1..Len(privateKeys) |->
                    Rec("processing", 0, "Operation timed out", FALSE, <<>>)]
    /\ UNCHANGED <<inputs, pc, i, preparedData, results, j, txResults, inflight,
                   broadcasts, planLog, outcomes>>

\* isRunning: set when handleStartTransfer begins and cleared in its finally;
\* while it is set the button stops, and while it is clear the button starts
\* a transfer.
IsRunning == caller = "handler" /\ ui = "racing"

HandlerReceive ==
    /\ caller = "handler" /\ ui = "racing"
    /\ pc = "done"
    /\ ui' = "returned"
    /\ handed' = results
    /\ UNCHANGED <<inputs, pc, i, preparedData, results, j, txResults, inflight,
                   broadcasts, planLog, outcomes>>

Next ==
    \/ StartTransferNoRpc
    \/ PrepareNoDestinations
    \/ PrepareBlank
    \/ PrepareBalanceError
    \/ PrepareLowBalance
    \/ PreparePlanned
    \/ PreparePlanFailed
    \/ ExecuteSkip
    \/ BroadcastAccepted
    \/ BroadcastRejected
    \/ BroadcastInsufficientFunds
    \/ ResendAccepted
    \/ ResendRejected
    \/ WaitReceipt
    \/ TimeoutFound
    \/ TimeoutMissing
    \/ FoldSuccess
    \/ FoldAllFailed
    \/ FoldRereadFailed
    \/ HandlerCall
    \/ HandlerReject
    \/ HandlerTimeout
    \/ HandlerReceive

Spec == Init /\ [][Next]_vars

TypeOK ==
    /\ pc \in {"prepare", "execute", "wait", "resend", "done"}
    /\ ui \in {"racing", "rejected", "timedOut", "returned"}
    /\ Len(results) <= Len(privateKeys)

\* ------------------------------------------------------------ single calls
\* checkWalletBalance and prepareTransaction applied once to arguments and
\* environment answers drawn from wider sets than a batch can afford.
PlanBalances == {ReadFailed, 4999, 5000, 5001, 8300, 1000020, 1000300}

\* Fee answers for planning: the general ones, a quiet network that reports
\* 2 gwei and a busy one that reports 125 gwei.
PlanFeeData == FeeDataValues \cup {<<"ok", 2, 0>>, <<"ok", 0, 125>>}

\* Fee answers to the second getGasPrice call of a plan.
PlanSlowFeeData == FeeDataValues \cup {<<"ok", 0, 125>>}

PlanArgs ==
    [balance : PlanBalances, fee1 : PlanFeeData, fee2 : PlanSlowFeeData,
     eth : EtherscanValues, nonce : NonceValues \cup {ReadFailed},
     dests : SeqsUpTo(WeightValues, MaxDests) \ {<<>>},
     method : DistributionMethods, speed : GasSpeeds]

BatchIdle ==
    /\ privateKeys = <<>>
    /\ destinationWallets = <<>>
    /\ distributionMethod = "equal"
    /\ gasSpeed = "average"
    /\ rpcConfigured = TRUE
    /\ caller = "direct"
    /\ pc = "done"
    /\ i = 1
    /\ preparedData = <<>>
    /\ results = <<>>
    /\ j = 1
    /\ txResults = <<>>
    /\ inflight = NoInflight
    /\ broadcasts = <<>>
    /\ planLog = <<>>
    /\ outcomes = <<>>
    /\ ui = "returned"
    /\ handed = <<>>
    /\ requests = <<>>

batch == <<privateKeys, destinationWallets, distributionMethod, gasSpeed,
           rpcConfigured, caller, pc, i, preparedData, results, j, txResults,
           inflight, broadcasts, planLog, outcomes, ui, handed, requests>>

PlanInit ==
    /\ BatchIdle
    /\ FeeIdle
    /\ TransferIdle
    /\ WaitIdle
    /\ args \in PlanArgs
    /\ ret = NoRet

ArgsGasPrice == ResolveGasPrice(args.fee1, args.fee2, args.eth, args.speed)

ArgsAvailable == AvailableAmount(args.balance, ArgsGasPrice, Len(args.dests))

\* checkWalletBalance(privateKey) with the balance read args.balance.
ApplyGate ==
    /\ ret.op = "none"
    /\ ret' = [op |-> "gate", check |-> checkWalletBalance(args.balance),
               plannerTooLow |-> PlannerBalanceTooLow(args.balance)]
    /\ UNCHANGED <<batch, args, feeState, retryState, waitState>>

\* prepareTransaction(privateKey, destinations, ...) with the same answers.
ApplyPlan ==
    /\ ret.op = "none"
    /\ ret' = [op |-> "plan",
               plan |-> prepareTransaction(args.balance, ArgsGasPrice, args.nonce,
                                           args.dests, args.method)]
    /\ UNCHANGED <<batch, args, feeState, retryState, waitState>>

\* prepareTransaction of gas-price.ts with the same answers.
ApplyPlanFixedReserve ==
    /\ ret.op = "none"
    /\ ret' = [op |-> "planFixed",
               plan |-> prepareTransactionFixedReserve(
                            args.balance, getGasPrice(args.fee1, args.eth, args.speed),
                            args.nonce, args.dests)]
    /\ UNCHANGED <<batch, args, feeState, retryState, waitState>>

\* What one transferFunds call of distributeFunds comes to, as seen from the
\* loop: the call reads the balance itself, takes the percentage of that
\* balance less one reserve, and sends it at the price getGasPrice gave;
\* fate is "mined" or "failed" (every attempt failed and nothing was spent).
\* planned and amount are history: whether the call got as far as computing
\* its amount, and the amount.
\* A mined transfer is charged its amount and the fee at maxFeePerGas.
TransferOnce(balance, gasPrice, weight, fate) ==
    LET amount == FFloor(FMul(FRound(balance - RetryGasReserve, 1),
                              FDiv(FRound(weight, 100), FRound(100, 1))))
    IN IF balance < MinBalanceWei
       THEN [success |-> FALSE, planned |-> FALSE, amount |-> 0, left |-> balance]
       ELSE IF amount - gasPrice * GasLimit <= 0 \/ fate = "failed"
       THEN [success |-> FALSE, planned |-> TRUE, amount |-> amount, left |-> balance]
       ELSE [success |-> TRUE, planned |-> TRUE, amount |-> amount,
             left |-> balance - amount - gasPrice * GasLimit]

\* The loop of distributeFunds from destination k on, the account holding
\* `balance` when transferFunds is called for k.
RECURSIVE DistributeFrom(_, _, _, _, _)
DistributeFrom(balance, gasPrice, dests, fates, k) ==
    IF k > Len(dests) THEN <<>>
    ELSE LET once == TransferOnce(balance, gasPrice, dests[k], fates[k])
         IN <<[destination |-> k, percentage |-> dests[k], success |-> once.success,
               planned |-> once.planned, amount |-> once.amount]>>
            \o DistributeFrom(once.left, gasPrice, dests, fates, k + 1)

\* distributeFunds: throws unless the percentages total 100 within 0.01 and,
\* for several destinations, when its own balance read fails or is too low;
\* then one transferFunds call for each destination in turn.
distributeFunds(read, gasPrice, dests, fates) ==
    IF ~PercentagesValid(dests)
    THEN [ok |-> FALSE, error |-> "Total percentage must equal 100%", txs |-> <<>>]
    ELSE IF Len(dests) > 1 /\ read = ReadFailed
    THEN [ok |-> FALSE, error |-> "balance read failed", txs |-> <<>>]
    ELSE IF Len(dests) > 1 /\ read < MinBalanceWei
    THEN [ok |-> FALSE, error |-> "Balance too low to transfer", txs |-> <<>>]
    ELSE IF Len(dests) > 1 /\ read - RetryGasReserve * Len(dests) <= 0
    THEN [ok |-> FALSE, error |-> "Not enough balance to cover transfers after gas costs",
          txs |-> <<>>]
    ELSE [ok |-> TRUE, error |-> "",
          txs |-> DistributeFrom(IF read = ReadFailed THEN 0 ELSE read, gasPrice, dests,
                                 fates, 1)]

\* distributeFunds(key, destinations, ...) with the same answers and a fate
\* for each of its transfers.
ApplyDistribute ==
    /\ ret.op = "none"
    /\ \E fates \in [1..Len(args.dests) -> {"mined", "failed"}] :
         ret' = [op |-> "distribute",
                 plan |-> distributeFunds(args.balance,
                                          getGasPrice(args.fee1, args.eth, args.speed),
                                          args.dests, fates)]
    /\ UNCHANGED <<batch, args, feeState, retryState, waitState>>

PlanNext ==
    \/ ApplyDistribute
    \/ ApplyGate
    \/ ApplyPlan
    \/ ApplyPlanFixedReserve

SpecPlan == PlanInit /\ [][PlanNext]_vars

\* --------------------------------------------------------------- fee oracle
\* Calls of getGasPrice over time, with the module-level Etherscan cache.
FeeInit ==
    /\ BatchIdle
    /\ FeeIdle
    /\ TransferIdle
    /\ WaitIdle
    /\ args = NoArgs
    /\ ret = NoRet

\* A minute passes.
Tick ==
    /\ clock < MaxClock
    /\ clock' = clock + 1
    /\ UNCHANGED <<batch, args, ret, cachedEtherscanGasPrice, lastEtherscanFetch,
                   quotes, lookups, retryState, waitState>>

\* getFeeData answered without maxFeePerGas and without gasPrice.
NoFeeFields(fee) == fee[1] = "ok" /\ fee[2] = 0 /\ fee[3] = 0

\* getGasPrice(provider, speed, key): provider.getFeeData is called every
\* time; getEtherscanGasPrice only when the fee data has no usable field.
GetGasPriceCall ==
    /\ Len(quotes) < MaxQuotes
    /\ \E speed \in GasSpeeds, fee \in FeeDataValues, answer \in OracleAnswers :
         LET oracle == getEtherscanGasPrice(cachedEtherscanGasPrice,
                                            lastEtherscanFetch, clock, answer)
             asked == NoFeeFields(fee)
         IN
         /\ cachedEtherscanGasPrice' =
                IF asked THEN oracle.cached ELSE cachedEtherscanGasPrice
         /\ lastEtherscanFetch' = IF asked THEN oracle.last ELSE lastEtherscanFetch
         /\ quotes' = Append(quotes,
                [speed |-> speed, at |-> clock, fee |-> fee, answer |-> answer,
                 price |-> getGasPrice(fee, oracle.data, speed),
                 feeDataCalls |-> 1,
                 oracleCalls |-> IF asked /\ oracle.fetched THEN 1 ELSE 0,
                 asked |-> asked,
                 source |-> PriceSource(fee, oracle.data)])
    /\ UNCHANGED <<batch, args, ret, clock, lookups, retryState, waitState>>

FeeNext ==
    \/ Tick
    \/ GetGasPriceCall

SpecFee == FeeInit /\ [][FeeNext]_vars

\* ------------------------------------------------- concurrent cache lookups
\* Calls of getEtherscanGasPrice that overlap: each call runs to its await
\* of fetch in one step and goes on when the response arrives; other calls
\* run in between.
CacheInit ==
    /\ BatchIdle
    /\ FeeIdle
    /\ TransferIdle
    /\ WaitIdle
    /\ args = NoArgs
    /\ ret = NoRet

\* The lookups awaiting the response of the oracle.
Fetching == {c \in 1..Len(lookups) : lookups[c].pc = "fetching"}

\* A call begins: it reads the clock and the cache and returns the cached
\* answer inside the cache window; otherwise it calls fetch and awaits.
\* during is history: the lookups that were awaiting a response then.
LookupStart ==
    /\ Len(lookups) < MaxLookups
    /\ LET hit == cachedEtherscanGasPrice[1] # "null"
                      /\ clock - lastEtherscanFetch < CacheDuration
       IN lookups' = Append(lookups,
              [pc |-> IF hit THEN "done" ELSE "fetching", now |-> clock,
               data |-> IF hit THEN cachedEtherscanGasPrice ELSE <<"null", 0, 0, 0>>,
               fetched |-> ~hit, during |-> Fetching])
    /\ UNCHANGED <<batch, args, ret, cachedEtherscanGasPrice, lastEtherscanFetch,
                   clock, quotes, retryState, waitState>>

\* The response of a fetch arrives: a failure returns null; an answer with
\* status "1" is cached with the time the call read at its start.
LookupResponse ==
    \E c \in Fetching, answer \in OracleAnswers :
        /\ lookups' = [lookups EXCEPT ![c].pc = "done", ![c].data = answer]
        /\ cachedEtherscanGasPrice' =
               IF answer[1] = "null" THEN cachedEtherscanGasPrice ELSE answer
        /\ lastEtherscanFetch' =
               IF answer[1] = "null" THEN lastEtherscanFetch ELSE lookups[c].now
        /\ UNCHANGED <<batch, args, ret, clock, quotes, retryState, waitState>>

CacheNext ==
    \/ Tick
    \/ LookupStart
    \/ LookupResponse

SpecCache == CacheInit /\ [][CacheNext]_vars

\* ------------------------------------------------------------ transferFunds
\* One call of transferFunds in two of its revisions.  "retrying" reads the
\* pending count once, puts it in every transaction and boosts the fee price
\* per attempt; "script" (utils.js) builds transactions without a nonce, so
\* the signer fills in the pending count at each send.
maxRetries == 3


\* Answers of provider.getFeeData to the attempts of one call.
RetryFeeData == {<<"throw", 0, 0>>, <<"ok", 10, 9>>, <<"ok", 0, 200>>}

TransferBalances == {ReadFailed, 4999, 5000, 1000020}

\* What a deposit into the account brings.
DepositValues == {1000020}

\* The calls: the script has no gas speed argument.
TransferCalls ==
    [revision : {"retrying"}, gasSpeed : GasSpeeds, balance : TransferBalances,
     pending : {7}]
        \cup [revision : {"script"}, gasSpeed : {"average"}, balance : TransferBalances,
              pending : {7}]

TransferInit ==
    /\ BatchIdle
    /\ FeeIdle
    /\ WaitIdle
    /\ args = NoArgs
    /\ ret = NoRet
    /\ transfer \in TransferCalls
    /\ tfAttempt = 0
    /\ tfNonce = NotRead
    /\ tfLastError = ""
    /\ tfPc = "start"
    /\ sends = <<>>
    /\ mined = {}
    /\ funds = IF transfer.balance = ReadFailed THEN 0 ELSE transfer.balance
    /\ deposits = 0

IsScript == transfer.revision = "script"

\* The speed of attempt a: the requested one, then average, then fast.
CurrentSpeed(speed, a) ==
    IF a = 1 THEN "average" ELSE IF a = 2 THEN "fast" ELSE speed

\* 1.0 + attempt * 0.3
BoostFactor(a) == FRound(10 + 3 * a, 10)

BoostedGasPrice(gasPrice, a) ==
    IF a > 0 THEN FFloor(FMul(FRound(gasPrice, 1), BoostFactor(a))) ELSE gasPrice

\* BigInt(Math.floor(Number(balance - gasReserve) * (percentage / 100))) with
\* the default percentage of 100.
TransferAmount(balance) ==
    FFloor(FMul(FRound(balance - RetryGasReserve, 1),
                FDiv(FRound(100, 1), FRound(100, 1))))

\* A loop without an attempt ceiling.
MoreAttemptsForever(a) == TRUE

\* The loop condition attempt < maxRetries.
MoreAttempts(a) == a < maxRetries

AcceptedSends == {s \in 1..Len(sends) : sends[s].accepted}

MinedSends == {m.send : m \in mined}

\* provider.getTransactionCount(address, "pending"): the count at the start
\* plus the nonces taken by transactions the node has accepted since.
PendingCount ==
    transfer.pending + Cardinality({sends[s].nonce : s \in AcceptedSends})

\* What a transaction can cost its sender: the value and the highest fee.
Cost(tx) == tx.value + tx.maxFeePerGas * GasLimit

\* The node takes a transaction whose nonce is not used up and whose cost the
\* account can pay, and, when a pending transaction has the same nonce, only
\* at a higher fee price.
CanAccept(tx) ==
    /\ tx.nonce >= transfer.pending + Cardinality(mined)
    /\ funds >= Cost(tx)
    /\ \A s \in AcceptedSends \ MinedSends :
           sends[s].nonce = tx.nonce => tx.maxFeePerGas > sends[s].maxFeePerGas

\* The transaction of the current attempt of the retrying revision.
RetryTx(fee, eth) ==
    [attempt |-> tfAttempt,
     speed |-> CurrentSpeed(transfer.gasSpeed, tfAttempt),
     fee |-> fee,
     nonce |-> IF tfNonce = NotRead THEN PendingCount ELSE tfNonce,
     value |-> TransferAmount(transfer.balance),
     maxFeePerGas |->
         BoostedGasPrice(getGasPrice(fee, eth, CurrentSpeed(transfer.gasSpeed, tfAttempt)),
                         tfAttempt),
     maxPriorityFeePerGas |-> PriorityFeeGwei + tfAttempt]

\* getCurrentGasPrice of the script: gasPrice plus the priority fee, 1 gwei
\* when the node reports none; it throws without a gasPrice.
ScriptPriced(fee) == fee[1] = "ok" /\ fee[3] # 0

\* The transaction of the script as the signer completes it: no priority fee
\* is set (0) and the nonce is the pending count at the time of the send.
ScriptTx(fee) ==
    [attempt |-> tfAttempt,
     speed |-> "average",
     fee |-> fee,
     nonce |-> PendingCount,
     value |-> transfer.balance - ScriptGasReserve,
     maxFeePerGas |-> fee[3] + 1,
     maxPriorityFeePerGas |-> 0]

NextTx(fee, eth) == IF IsScript THEN ScriptTx(fee) ELSE RetryTx(fee, eth)

\* transferAmount - gasCost > 0
Affordable(tx) == tx.value - tx.maxFeePerGas * GasLimit > 0

\* The catch of the loop: the error is kept and the next attempt follows;
\* after the last attempt the error is thrown.
Caught(msg) ==
    /\ tfLastError' = msg
    /\ tfAttempt' = tfAttempt + 1
    /\ tfPc' = IF MoreAttempts(tfAttempt + 1) THEN "loop" ELSE "thrown"

\* The balance read and the minimum check before the loop.
TransferStart ==
    /\ tfPc = "start"
    /\ IF transfer.balance = ReadFailed
       THEN tfPc' = "thrown" /\ tfLastError' = "balance read failed"
       ELSE IF transfer.balance < MinBalanceWei
       THEN /\ tfPc' = IF IsScript THEN "returned" ELSE "thrown"
            /\ tfLastError' = IF IsScript THEN "" ELSE "Balance too low to transfer"
       ELSE tfPc' = "loop" /\ tfLastError' = ""
    /\ UNCHANGED <<batch, args, ret, feeState, waitState, transfer, tfAttempt, tfNonce, sends, chain>>

\* The script's getCurrentGasPrice throws.
ScriptPriceFailed ==
    /\ tfPc = "loop" /\ IsScript
    /\ \E fee \in RetryFeeData :
         /\ ~ScriptPriced(fee)
         /\ Caught("gas price read failed")
    /\ UNCHANGED <<batch, args, ret, feeState, waitState, transfer, tfNonce, sends, chain>>

\* provider.getTransactionCount throws in an attempt that has no nonce yet.
AttemptNonceFailed ==
    /\ tfPc = "loop" /\ ~IsScript
    /\ tfNonce = NotRead
    /\ Caught("transaction count read failed")
    /\ UNCHANGED <<batch, args, ret, feeState, waitState, transfer, tfNonce, sends, chain>>

\* The fee of the attempt is not below the amount: the retrying revision
\* throws into its catch, the script returns.
AttemptTooCostly ==
    /\ tfPc = "loop"
    /\ \E fee \in RetryFeeData, eth \in BatchEtherscan :
         /\ IsScript => ScriptPriced(fee)
         /\ ~Affordable(NextTx(fee, eth))
         /\ tfNonce' = IF IsScript THEN tfNonce ELSE NextTx(fee, eth).nonce
         /\ IF IsScript
            THEN tfPc' = "returned" /\ UNCHANGED <<tfAttempt, tfLastError>>
            ELSE Caught("Not enough balance to cover transfer after gas costs")
    /\ UNCHANGED <<batch, args, ret, feeState, waitState, transfer, sends, chain>>

\* wallet.sendTransaction throws.
AttemptRejected ==
    /\ tfPc = "loop"
    /\ \E fee \in RetryFeeData, eth \in BatchEtherscan :
         /\ IsScript => ScriptPriced(fee)
         /\ Affordable(NextTx(fee, eth))
         /\ sends' = Append(sends, [accepted |-> FALSE] @@ NextTx(fee, eth))
         /\ tfNonce' = IF IsScript THEN tfNonce ELSE NextTx(fee, eth).nonce
         /\ Caught("rejected")
    /\ UNCHANGED <<batch, args, ret, feeState, waitState, transfer, chain>>

\* wallet.sendTransaction returns a hash.
AttemptAccepted ==
    /\ tfPc = "loop"
    /\ \E fee \in RetryFeeData, eth \in BatchEtherscan :
         /\ IsScript => ScriptPriced(fee)
         /\ Affordable(NextTx(fee, eth))
         /\ CanAccept(NextTx(fee, eth))
         /\ sends' = Append(sends, [accepted |-> TRUE] @@ NextTx(fee, eth))
         /\ tfNonce' = IF IsScript THEN tfNonce ELSE NextTx(fee, eth).nonce
         /\ tfPc' = "wait"
    /\ UNCHANGED <<batch, args, ret, feeState, waitState, transfer, tfAttempt, tfLastError, chain>>

\* The network mines an accepted transaction whose nonce is the next one of
\* the account; status 0 is a transaction that failed on the chain.
Mine ==
    /\ tfPc # "idle"
    /\ \E s \in AcceptedSends \ MinedSends, status \in {0, 1} :
         /\ sends[s].nonce = transfer.pending + Cardinality(mined)
         /\ funds >= Cost(sends[s])
         /\ mined' = mined \cup {[send |-> s, status |-> status]}
         /\ funds' = funds - (IF status = 1 THEN Cost(sends[s])
                              ELSE sends[s].maxFeePerGas * GasLimit)
    /\ UNCHANGED <<batch, args, ret, feeState, waitState, transfer, tfAttempt, tfNonce,
                   tfLastError, tfPc, sends, deposits>>

\* Somebody pays into the account while the call is running.
Deposit ==
    /\ tfPc \in {"loop", "wait"}
    /\ deposits < MaxDeposits
    /\ \E amount \in DepositValues : funds' = funds + amount
    /\ deposits' = deposits + 1
    /\ UNCHANGED <<batch, args, ret, feeState, waitState, transfer, tfAttempt, tfNonce,
                   tfLastError, tfPc, sends, mined>>

\* waitForTransaction reads the receipt of the transaction just sent; the
\* retrying revision throws on status 0, the script returns any receipt.
TransferReceipt ==
    /\ tfPc = "wait"
    /\ \E m \in mined :
         /\ m.send = Len(sends)
         /\ IF m.status = 0 /\ ~IsScript
            THEN Caught("Transaction failed on the blockchain")
            ELSE tfPc' = "returned" /\ UNCHANGED <<tfAttempt, tfLastError>>
    /\ UNCHANGED <<batch, args, ret, feeState, waitState, transfer, tfNonce, sends, chain>>

\* waitForTransaction throws after its timeout: the retrying revision
\* catches it like any error; the script goes on to the next iteration and
\* returns nothing after the last.
TransferTimeout ==
    /\ tfPc = "wait"
    /\ Len(sends) \notin MinedSends
    /\ IF IsScript
       THEN /\ tfAttempt' = tfAttempt + 1
            /\ tfPc' = IF MoreAttempts(tfAttempt + 1) THEN "loop" ELSE "returned"
            /\ UNCHANGED tfLastError
       ELSE Caught("Transaction not mined within the timeout period")
    /\ UNCHANGED <<batch, args, ret, feeState, waitState, transfer, tfNonce, sends, chain>>

TransferNext ==
    \/ TransferStart
    \/ ScriptPriceFailed
    \/ AttemptNonceFailed
    \/ AttemptTooCostly
    \/ AttemptRejected
    \/ AttemptAccepted
    \/ Mine
    \/ Deposit
    \/ TransferReceipt
    \/ TransferTimeout

\* The submitters: a batch of startTransfer, or one transferFunds call.
SubmitInit == Init \/ TransferInit

SubmitNext == Next \/ TransferNext

SpecSubmit == SubmitInit /\ [][SubmitNext]_vars

\* ------------------------------------------------- confirmation polling
\* sendPreparedTransaction with the loop of waitForTransaction step by step:
\* each poll is a step, and time passes with the network calls and sleeps.
WaitInit ==
    /\ BatchIdle
    /\ FeeIdle
    /\ TransferIdle
    /\ args = NoArgs
    /\ ret = NoRet
    /\ wPc = "send"
    /\ wElapsed = 0
    /\ wLast = "none"
    /\ wTodo \in 1..MaxDests
    /\ wResults = <<>>

\* A poll that sleeps no time.
SleptNot(answer, latency) == 0

\* The time one round of the loop takes: the calls and the sleep, 3 seconds
\* after a poll without receipt and 5 after one that threw.
Slept(answer, latency) ==
    latency + (IF answer = "error" THEN ErrorInterval ELSE PollInterval)

\* results.push and the next round of the for loop.
PushResult(outcome) ==
    /\ wResults' = Append(wResults, outcome)
    /\ wTodo' = wTodo - 1
    /\ wPc' = IF wTodo = 1 THEN "done" ELSE "send"

\* The sends of one instruction: they end with a transaction the network
\* accepted, the prepared one or the reduced one, or with a failed result.
PollSend ==
    /\ wPc = "send"
    /\ \E accepted \in BOOLEAN :
         IF accepted
         THEN /\ wPc' = "first"
              /\ wElapsed' = 0
              /\ wLast' = "none"
              /\ UNCHANGED <<wTodo, wResults>>
         ELSE /\ PushResult(FailedOutcome("rejected"))
              /\ UNCHANGED <<wElapsed, wLast>>
    /\ UNCHANGED <<batch, args, ret, feeState, retryState>>

\* The first getTransaction of waitForTransaction; its error is caught.
PollFirst ==
    /\ wPc = "first"
    /\ \E latency \in 0..MaxLatency : wElapsed' = wElapsed + latency
    /\ wPc' = "poll"
    /\ UNCHANGED <<batch, args, ret, feeState, retryState, wLast, wTodo, wResults>>

\* A round of the loop without receipt: getTransactionReceipt answers null
\* ("none") or a call throws ("error"), and the loop sleeps.
PollAgain ==
    /\ wPc = "poll"
    /\ wElapsed < WaitTimeout
    /\ \E answer \in {"none", "error"}, latency \in 0..MaxLatency :
         /\ wElapsed' = wElapsed + Slept(answer, latency)
         /\ wLast' = answer
    /\ UNCHANGED <<batch, args, ret, feeState, retryState, wPc, wTodo, wResults>>

\* A round of the loop reads a receipt.
PollReceipt ==
    /\ wPc = "poll"
    /\ wElapsed < WaitTimeout
    /\ \E status \in {0, 1} :
         PushResult(SentOutcome(waitForTransaction("receipt", status), 0, "receipt"))
    /\ wLast' = "receipt"
    /\ UNCHANGED <<batch, args, ret, feeState, retryState, wElapsed>>

\* The loop condition fails: the timeout has passed.
PollExpired ==
    /\ wPc = "poll"
    /\ wElapsed >= WaitTimeout
    /\ wPc' = "final"
    /\ UNCHANGED <<batch, args, ret, feeState, retryState, wElapsed, wLast, wTodo,
                   wResults>>

\* The final getTransaction: the transaction is found, or it is missing or
\* the call throws.
PollFinal ==
    /\ wPc = "final"
    /\ \E how \in {"found", "missing"} :
         PushResult(SentOutcome(waitForTransaction(how, 1), 0, how))
    /\ UNCHANGED <<batch, args, ret, feeState, retryState, wElapsed, wLast>>

WaitNext ==
    \/ PollSend
    \/ PollFirst
    \/ PollAgain
    \/ PollReceipt
    \/ PollExpired
    \/ PollFinal

\* Every network call returns and every timer fires.
SpecWait == WaitInit /\ [][WaitNext]_vars /\ WF_vars(WaitNext)

\* ================================================================== claims
TerminalStatuses == {"idle", "low_balance", "success", "error"}

RECURSIVE SumValues(_)
SumValues(txs) == IF txs = <<>> THEN 0 ELSE Head(txs).value + SumValues(Tail(txs))

GateLow(k) == planLog[k].gate # ReadFailed /\ planLog[k].gate < MinBalanceWei

\* C1: an account reported with status error has no succeeded submission
\* outcome, whatever happens after submission (a failing balance re-read
\* included).
C1_ErrorMeansNoSuccess ==
    \A k \in 1..Len(outcomes) :
        results[k].status = "error" => ~AnySuccess(outcomes[k])

\* C2: an account is reported with status success only if at least one of
\* its submission outcomes has success = TRUE.
C2_SuccessMeansSomeSuccess ==
    \A k \in 1..Len(results) :
        results[k].status = "success" =>
            k <= Len(outcomes) /\ AnySuccess(outcomes[k])

\* C2 witness: an account reported success with one failed and one succeeded
\* outcome.
C2_Witness ==
    \E k \in 1..Len(outcomes) :
        /\ results[k].status = "success"
        /\ \E a, b \in 1..Len(outcomes[k]) :
               outcomes[k][a].success /\ ~outcomes[k][b].success

\* C3: startTransfer returns exactly one record per input key, and record k
\* describes key k (a blank key is never reported as processed, a non-blank
\* key is never reported idle).
C3_OneRecordPerKey ==
    pc = "done" =>
        /\ Len(results) = Len(privateKeys)
        /\ \A k \in 1..Len(privateKeys) :
               /\ privateKeys[k] = "" => results[k].status \in {"idle", "error"}
               /\ privateKeys[k] # "" => results[k].status # "idle"

\* C4: in the result handed to the caller every account's status is one of
\* idle, low_balance, success, error; none is left processing.
C4_ReturnedStatusesTerminal ==
    /\ pc = "done" =>
           \A k \in 1..Len(results) : results[k].status \in TerminalStatuses
    /\ ui # "racing" =>
           \A k \in 1..Len(handed) : handed[k].status \in TerminalStatuses

\* C5: a failure of one account does not abort the batch: when the batch is
\* done every key has been gated, every account that passed the gate has been
\* planned or ended in error, every planned account has one outcome per
\* destination, and its status follows from its own answers alone.
C5_LaterAccountsStillProcessed ==
    (pc = "done" /\ rpcConfigured /\ destinationWallets # <<>>) =>
        /\ Len(planLog) = Len(privateKeys)
        /\ Len(results) = Len(privateKeys)
        /\ Len(outcomes) = Len(privateKeys)
        /\ \A k \in 1..Len(privateKeys) :
               privateKeys[k] # "" =>
                   /\ planLog[k].gate = ReadFailed => results[k].status = "error"
                   /\ GateLow(k) => results[k].status = "low_balance"
                   /\ (planLog[k].gate >= MinBalanceWei /\ ~planLog[k].planned) =>
                          results[k].status = "error" /\ outcomes[k] = <<>>
                   /\ planLog[k].planned =>
                          /\ Len(outcomes[k]) = Len(destinationWallets)
                          /\ results[k].status \in {"success", "error"}
                          /\ ~AnySuccess(outcomes[k]) => results[k].status = "error"

\* C5 witness: the first account failed and the second was submitted and
\* reported success.
C5_Witness ==
    /\ pc = "done"
    /\ Len(results) >= 2
    /\ results[1].status = "error"
    /\ results[2].status = "success"
    /\ AnySuccess(outcomes[2])

\* C6: an account whose gate balance is below the minimum has status
\* low_balance, keeps it to the end, and no instruction of it is built or
\* broadcast.
C6_LowBalanceIsTerminal ==
    \A k \in 1..Len(planLog) :
        GateLow(k) =>
            /\ preparedData[k].status = "low_balance"
            /\ ~preparedData[k].hasPrepared
            /\ preparedData[k].preparedTransactions = <<>>
            /\ \A b \in 1..Len(broadcasts) : broadcasts[b].account # k
            /\ k <= Len(results) =>
                   results[k].status = "low_balance" /\ outcomes[k] = <<>>

\* C6 witness: a finished batch with a low_balance account next to an account
\* that did broadcast.
C6_Witness ==
    /\ pc = "done"
    /\ \E k \in 1..Len(planLog) : GateLow(k) /\ results[k].status = "low_balance"
    /\ broadcasts # <<>>

\* C7: the gate classifies a balance equal to the minimum as sufficient and a
\* balance one unit below as insufficient, and the planner's own minimum
\* check agrees on both.
C7_GateBoundary ==
    (ret.op = "gate" /\ ~ret.check.error) =>
        /\ args.balance = MinBalanceWei =>
               ret.check.hasSufficientBalance /\ ~ret.plannerTooLow
        /\ args.balance = MinBalanceWei - 1 =>
               ~ret.check.hasSufficientBalance /\ ret.plannerTooLow

\* C7 witness: the gate applied to one unit below the minimum.
C7_Witness ==
    /\ ret.op = "gate"
    /\ args.balance = MinBalanceWei - 1
    /\ ~ret.check.hasSufficientBalance

\* C8: the nonces of the N built instructions are start, start+1, ...,
\* start+N-1 in destination order, start being the pending count read once.
C8_NoncesSequential ==
    (ret.op = "plan" /\ ret.plan.ok) =>
        /\ Len(ret.plan.txs) = Len(args.dests)
        /\ \A k \in 1..Len(ret.plan.txs) :
               /\ ret.plan.txs[k].to = k
               /\ ret.plan.txs[k].nonce = args.nonce + k - 1

\* C8 witness: two instructions planned from a non-zero pending count.
C8_Witness ==
    /\ ret.op = "plan"
    /\ ret.plan.ok
    /\ Len(ret.plan.txs) = 2
    /\ args.nonce = 7
    /\ ret.plan.txs[2].nonce = 8

WeightsDivideEvenly ==
    IF args.method = "equal" THEN ArgsAvailable % Len(args.dests) = 0
    ELSE \A k \in 1..Len(args.dests) :
             (ArgsAvailable * (args.dests[k] \div 100)) % 100 = 0

\* C9: for weights summing to 100 (within 0.01) the planned amounts sum to at
\* most the distributable pool, and to the pool exactly when the weights
\* divide it evenly.
C9_PlannedSumWithinPool ==
    (/\ ret.op = "plan"
     /\ ret.plan.ok
     /\ args.method = "equal" \/ PercentagesValid(args.dests)) =>
        /\ SumValues(ret.plan.txs) <= ArgsAvailable
        /\ WeightsDivideEvenly => SumValues(ret.plan.txs) = ArgsAvailable

AllOutcomes ==
    {txResults[k] : k \in 1..Len(txResults)}
        \cup UNION {{outcomes[a][k] : k \in 1..Len(outcomes[a])} : a \in 1..Len(outcomes)}

\* C10: when polling times out and the transaction is still found pending,
\* the outcome is success = TRUE with pending = TRUE.
C10_TimeoutFoundIsPending ==
    \A o \in AllOutcomes : o.via = "found" => o.success /\ o.pending

AttemptsOf(a, k) ==
    SelectSeq(broadcasts, LAMBDA b : b.account = a /\ b.instruction = k)

\* C11: an instruction whose broadcast fails with insufficient funds is sent
\* again exactly once, with floor(amount * 90 / 100) and otherwise unchanged,
\* unless that is below 0.001 ether, where nothing is sent again; when the
\* retry is abandoned or fails only this instruction's outcome is failed and
\* the remaining instructions of the account are still sent.
C11_InsufficientFundsRetry ==
    \A a \in 1..Len(preparedData) :
        \A k \in 1..Len(preparedData[a].preparedTransactions) :
            LET tx == preparedData[a].preparedTransactions[k]
                tries == AttemptsOf(a, k)
                reduced == (tx.value * 90) \div 100
            IN
            /\ Len(tries) <= 2
            /\ Len(tries) >= 1 =>
                   /\ tries[1].attempt = 1
                   /\ tries[1].value = tx.value
            /\ Len(tries) = 2 =>
                   /\ tries[1].why = "insufficient funds"
                   /\ tries[2].attempt = 2
                   /\ tries[2].value = reduced
                   /\ reduced >= MinReducedWei
                   /\ tries[2].to = tx.to
                   /\ tries[2].nonce = tx.nonce
                   /\ tries[2].maxFeePerGas = tx.maxFeePerGas
            /\ a <= Len(outcomes) =>
                   /\ Len(outcomes[a]) = Len(preparedData[a].preparedTransactions)
                   /\ Len(tries) >= 1
                   /\ tries[1].why = "insufficient funds" =>
                          (Len(tries) = 2 <=> reduced >= MinReducedWei)
                   /\ ~tries[Len(tries)].accepted =>
                          ~outcomes[a][k].success /\ outcomes[a][k].error # ""

\* C11 witness: an account whose first instruction was retried with the
\* reduced amount, failed again, and whose second instruction was still sent.
C11_Witness ==
    \E a \in 1..Len(outcomes) :
        /\ Len(AttemptsOf(a, 1)) = 2
        /\ ~AttemptsOf(a, 1)[2].accepted
        /\ AttemptsOf(a, 1)[2].value < AttemptsOf(a, 1)[1].value
        /\ Len(AttemptsOf(a, 2)) >= 1

\* C12: submission returns exactly one outcome per prepared instruction, in
\* instruction order, and every failed outcome carries an error text.
C12_OneOutcomePerInstruction ==
    /\ Len(txResults) = j - 1
    /\ \A k \in 1..Len(txResults) :
           txResults[k].destination = preparedData[i].preparedTransactions[k].to
    /\ \A a \in 1..Len(outcomes) :
           Runnable(preparedData[a]) =>
               /\ Len(outcomes[a]) = Len(preparedData[a].preparedTransactions)
               /\ \A k \in 1..Len(outcomes[a]) :
                      /\ outcomes[a][k].destination =
                             preparedData[a].preparedTransactions[k].to
                      /\ ~outcomes[a][k].success => outcomes[a][k].error # ""

\* C12 witness: a submitted account with a failed first outcome and a
\* succeeded second one.
C12_Witness ==
    \E a \in 1..Len(outcomes) :
        /\ Len(outcomes[a]) = 2
        /\ ~outcomes[a][1].success
        /\ outcomes[a][1].error # ""
        /\ outcomes[a][2].success
        /\ outcomes[a][2].destination = 2

\* The pool of account k as planning saw it: the balance read by
\* prepareTransaction minus 120% of the fee of one transfer per destination.
PoolOf(k) ==
    planLog[k].planRead -
        (planLog[k].gasPrice * GasLimit * Len(destinationWallets) * 12) \div 10

PoolExhausted(k) ==
    /\ privateKeys[k] # ""
    /\ planLog[k].gate >= MinBalanceWei
    /\ planLog[k].planRead >= MinBalanceWei
    /\ PoolOf(k) <= 0

\* C13: when the distributable pool is zero or negative planning fails, the
\* account ends with status error, is planned once only, and none of its
\* instructions is ever broadcast.
C13_NoPoolIsTerminalError ==
    /\ Len(planLog) <= Len(privateKeys)
    /\ pc = "prepare" => Len(planLog) = i - 1
    /\ \A k \in 1..Len(planLog) :
           PoolExhausted(k) =>
               /\ ~planLog[k].planned
               /\ preparedData[k].status = "error"
               /\ preparedData[k].error # ""
               /\ preparedData[k].preparedTransactions = <<>>
               /\ \A b \in 1..Len(broadcasts) : broadcasts[b].account # k
               /\ k <= Len(results) =>
                      results[k].status = "error" /\ outcomes[k] = <<>>

\* C13 witness: a finished batch with an account whose pool was exhausted,
\* reported error.
C13_Witness ==
    /\ pc = "done"
    /\ \E k \in 1..Len(planLog) :
           /\ PoolExhausted(k)
           /\ results[k].status = "error"

AllFailed(a) == Runnable(preparedData[a]) /\ ~AnySuccess(outcomes[a])

\* C14 as stated: when every broadcast of an account failed its status is
\* error with a failure message, and the balance it reports is the result of
\* a balance read made after the failed submissions.
C14_AllFailedReportsReread ==
    \A a \in 1..Len(outcomes) :
        AllFailed(a) =>
            /\ results[a].status = "error"
            /\ results[a].error # ""
            /\ planLog[a].reread \notin {NotRead, ReadFailed}
            /\ results[a].balance = planLog[a].reread

\* C14 amended: when every broadcast of an account failed its status is
\* error with a failure message, a balance read is made after the failed
\* submissions, and the balance reported is its result when it succeeds and
\* 0 when it fails.
C14_AllFailedReportsRereadIfAny ==
    \A a \in 1..Len(outcomes) :
        AllFailed(a) =>
            /\ results[a].status = "error"
            /\ results[a].error # ""
            /\ planLog[a].reread # NotRead
            /\ results[a].balance =
                   IF planLog[a].reread = ReadFailed THEN 0 ELSE planLog[a].reread

\* C14 witness: two broadcasts failed, the balance was read again and is
\* reported.
C14_Witness ==
    \E a \in 1..Len(outcomes) :
        /\ AllFailed(a)
        /\ Len(outcomes[a]) = 2
        /\ planLog[a].reread = 3000
        /\ results[a].balance = 3000
        /\ results[a].status = "error"

\* C15: getGasPrice returns a price and does not throw, for every tier and
\* every combination of failures of the network fee endpoint and of the
\* external oracle; when both fail the price is the tier's default.
C15_FeeAlwaysResolved ==
    \A k \in 1..Len(quotes) :
        LET q == quotes[k] IN
        /\ q.price # Thrown
        /\ q.price > 0
        /\ (q.fee[1] = "throw" \/ (NoFeeFields(q.fee) /\ q.oracleCalls = 1
                                   /\ q.answer[1] \in {"null", "bad"})) =>
               q.price = (CASE q.speed = "slow" -> 20 [] q.speed = "fast" -> 50
                            [] OTHER -> 35)

\* C15 witness: the network answered without fee fields, the oracle failed,
\* and the slow tier got its default price.
C15_Witness ==
    \E k \in 1..Len(quotes) :
        /\ NoFeeFields(quotes[k].fee)
        /\ quotes[k].oracleCalls = 1
        /\ quotes[k].answer[1] = "null"
        /\ quotes[k].speed = "slow"
        /\ quotes[k].price = 20

\* C16: two resolutions of the same tier less than 2 minutes apart return
\* the same price, and the second makes no external call.
C16_QuoteCachedInWindow ==
    \A a \in 1..Len(quotes) : \A b \in 1..Len(quotes) :
        (a < b /\ quotes[a].speed = quotes[b].speed
               /\ quotes[b].at - quotes[a].at < CacheDuration) =>
            /\ quotes[b].price = quotes[a].price
            /\ quotes[b].feeDataCalls + quotes[b].oracleCalls = 0

\* C17: a batch whose weights do not sum to 100 (within 0.01) is rejected by
\* the handler for the percentage and the custom method: no balance is gated,
\* no instruction is built and nothing is broadcast for it.
C17_BadWeightsRejected ==
    (/\ caller = "handler"
     /\ distributionMethod \in {"percentage", "custom"}
     /\ ~PercentagesValid(destinationWallets)) =>
        /\ planLog = <<>>
        /\ preparedData = <<>>
        /\ broadcasts = <<>>

\* C18: no call from the browser to the application's server side
\* (startTransfer, checkWalletBalance, getWalletBalances) carries a private
\* key.
C18_NoKeyLeavesBrowser ==
    \A m \in 1..Len(requests) :
        \A k \in 1..Len(requests[m].privateKeys) : requests[m].privateKeys[k] = ""

AcceptedOf(a) ==
    SelectSeq(broadcasts, LAMBDA b : b.account = a /\ b.accepted)

AcceptedNonces(a) == {AcceptedOf(a)[b].nonce : b \in 1..Len(AcceptedOf(a))}

\* C19: after any mix of broadcast successes and failures the sequence
\* numbers of the instructions the network accepted for an account are a
\* contiguous range that starts at the account's pending count, without
\* repeats.
C19_AcceptedNoncesContiguous ==
    \A a \in 1..Len(planLog) :
        planLog[a].planned =>
            /\ Cardinality(AcceptedNonces(a)) = Len(AcceptedOf(a))
            /\ AcceptedNonces(a) =
                   planLog[a].nonce .. (planLog[a].nonce + Len(AcceptedOf(a)) - 1)

\* C20: when polling times out and the transaction cannot be found on the
\* network at all, the instruction's outcome is failed (success = FALSE), not
\* a pending success.
C20_TimeoutMissingIsFailed ==
    \A o \in AllOutcomes : o.via = "missing" => ~o.success

\* C21: when a broadcast attempt of the retrying transferFunds fails, the
\* next broadcast for the same transfer, made against the same network fee
\* data, carries a strictly higher fee price, whatever tier was requested.
C21_RetryPriceStrictlyHigher ==
    ~IsScript =>
        \A s \in 1..(Len(sends) - 1) :
            sends[s + 1].fee = sends[s].fee =>
                sends[s + 1].maxFeePerGas > sends[s].maxFeePerGas

\* C22: every broadcast made for one instruction carries the sequence number
\* chosen for its first attempt: all sends of a transferFunds call share one
\* nonce, and both broadcasts of a prepared instruction carry the nonce it
\* was built with.
C22_RetriesReuseNonce ==
    /\ \A s \in 1..Len(sends) : sends[s].nonce = sends[1].nonce
    /\ \A b \in 1..Len(broadcasts) :
           broadcasts[b].nonce =
               preparedData[broadcasts[b].account]
                   .preparedTransactions[broadcasts[b].instruction].nonce

\* The sends of the transferFunds call that the network mined as successful
\* payments.
PaidSends == {m.send : m \in {c \in mined : c.status = 1}}

\* C23: among all transactions broadcast for one instruction at most one is
\* ever confirmed: a transferFunds call pays its destination at most once,
\* and at most one broadcast of a prepared instruction reaches the network.
C23_PaidAtMostOnce ==
    /\ Cardinality(PaidSends) <= 1
    /\ \A a \in 1..Len(preparedData) :
           \A k \in 1..Len(preparedData[a].preparedTransactions) :
               Len(SelectSeq(AttemptsOf(a, k), LAMBDA b : b.accepted)) <= 1

\* C24: every built instruction has a priority fee not above its fee
\* ceiling (maxPriorityFeePerGas <= maxFeePerGas), for every fee price that
\* fee resolution can return.
C24_PriorityWithinMaxFee ==
    (ret.op = "plan" /\ ret.plan.ok) =>
        \A k \in 1..Len(ret.plan.txs) :
            ret.plan.txs[k].maxPriorityFeePerGas <= ret.plan.txs[k].maxFeePerGas

\* C25: fee resolution never returns a price below the minimum of 8 gwei,
\* whether the price comes from the network fee data, from the external
\* oracle or from the fallback table, for every tier.
C25_PriceAtLeastMinimum ==
    \A k \in 1..Len(quotes) : quotes[k].price >= MinGasPrice

\* The price prepareTransaction holds after the slower-tier substitution,
\* before the ceiling is applied.
ArgsChosen ==
    LET first == getGasPrice(args.fee1, args.eth, args.speed)
        slower == getGasPrice(args.fee2, args.eth, "slow")
    IN IF first > 100 /\ args.speed # "slow" /\ slower < (first * 80) \div 100
       THEN slower ELSE first

\* C26 as stated: the fee price of built instructions never exceeds 150 gwei,
\* a price still above 150 gwei after the slower-tier substitution is replaced
\* by 50 gwei, and a failed fee resolution also yields 50 gwei.
C26_CeilingAndErrorGive50 ==
    (ret.op = "plan" /\ ret.plan.ok) =>
        \A k \in 1..Len(ret.plan.txs) :
            /\ ret.plan.txs[k].maxFeePerGas <= 150
            /\ ArgsChosen > 150 => ret.plan.txs[k].maxFeePerGas = 50
            /\ args.fee1[1] = "throw" => ret.plan.txs[k].maxFeePerGas = 50

\* C26 amended: the fee price of built instructions never exceeds 150 gwei, a
\* price still above 150 gwei after the slower-tier substitution is replaced
\* by 50 gwei and any other price is kept, and a failed network fee call
\* yields the fallback price of the requested tier (20, 35 or 50 gwei), since
\* getGasPrice does not throw.
C26_CeilingClampedErrorFallsBack ==
    (ret.op = "plan" /\ ret.plan.ok) =>
        \A k \in 1..Len(ret.plan.txs) :
            /\ ret.plan.txs[k].maxFeePerGas <= 150
            /\ ret.plan.txs[k].maxFeePerGas = IF ArgsChosen > 150 THEN 50 ELSE ArgsChosen
            /\ args.fee1[1] = "throw" =>
                   ret.plan.txs[k].maxFeePerGas = DefaultGasPrice(args.speed)

\* C26 witness: the network reported 200 gwei, the average tier was planned
\* and the instruction carries 50 gwei.
C26_Witness ==
    /\ ret.op = "plan"
    /\ ret.plan.ok
    /\ args.speed = "average"
    /\ args.fee1 = <<"ok", 0, 200>>
    /\ ArgsChosen > 150
    /\ ret.plan.txs[1].maxFeePerGas = 50

\* Instruction k of account a has reached an outcome: in the outcomes of an
\* account already executed, or in those of the account being executed.
HasOutcome(a, k) ==
    \/ a <= Len(outcomes) /\ k <= Len(outcomes[a])
    \/ a = i /\ a > Len(outcomes) /\ k <= Len(txResults)

\* The broadcasts of account a the network accepted and whose instruction
\* has no outcome yet.
InFlightOf(a) ==
    {b \in 1..Len(broadcasts) :
        /\ broadcasts[b].account = a
        /\ broadcasts[b].accepted
        /\ ~HasOutcome(a, broadcasts[b].instruction)}

\* C27: within one account submission is strictly sequential: every
\* instruction before a broadcast one has reached its outcome, the broadcasts
\* of an account are in instruction order, and at no time are two broadcasts
\* of the same account in flight.
C27_OneBroadcastInFlight ==
    /\ \A b \in 1..Len(broadcasts) :
           /\ \A k \in 1..(broadcasts[b].instruction - 1) :
                  HasOutcome(broadcasts[b].account, k)
           /\ \A c \in 1..(b - 1) :
                  broadcasts[c].account = broadcasts[b].account =>
                      broadcasts[c].instruction <= broadcasts[b].instruction
    /\ \A a \in 1..Len(preparedData) :
           /\ Cardinality(InFlightOf(a)) <= 1
           /\ a # i => InFlightOf(a) = {}
    /\ inflight # NoInflight <=> pc \in {"wait", "resend"}

\* C27 witness: the second instruction of an account is in flight after the
\* first was accepted and reached its outcome.
C27_Witness ==
    /\ pc = "wait"
    /\ j = 2
    /\ Len(txResults) = 1
    /\ txResults[1].success
    /\ Cardinality(InFlightOf(i)) = 1
    /\ \E b \in InFlightOf(i) : broadcasts[b].instruction = 2

\* C28: the broadcast attempts for one instruction are bounded: transferFunds
\* sends at most 3 times, in attempts 0, 1 and 2, the retrying revision ends
\* after its third failed attempt by reporting the error of that attempt,
\* and sendPreparedTransaction broadcasts an instruction at most twice.
C28_AttemptsBounded ==
    /\ Len(sends) <= maxRetries
    /\ tfAttempt <= maxRetries
    /\ \A s \in 1..Len(sends) :
           /\ sends[s].attempt < maxRetries
           /\ \A r \in 1..(s - 1) : sends[r].attempt < sends[s].attempt
    /\ (~IsScript /\ tfAttempt = maxRetries) =>
           /\ tfPc = "thrown"
           /\ tfLastError # ""
           /\ (Len(sends) > 0 /\ sends[Len(sends)].attempt = maxRetries - 1) =>
                  IF sends[Len(sends)].accepted
                  THEN tfLastError \in {"Transaction not mined within the timeout period",
                                        "Transaction failed on the blockchain"}
                  ELSE tfLastError = "rejected"
    /\ (~IsScript /\ tfPc = "thrown" /\ transfer.balance >= MinBalanceWei) =>
           tfAttempt = maxRetries
    /\ \A a \in 1..Len(preparedData) :
           \A k \in 1..Len(preparedData[a].preparedTransactions) :
               Len(AttemptsOf(a, k)) <= 2

\* C28 witness: the retrying transferFunds sent three times, the first was
\* rejected, the second timed out, the third failed on the chain, and the
\* call ended with that error.
C28_Witness ==
    /\ ~IsScript
    /\ tfPc = "thrown"
    /\ Len(sends) = maxRetries
    /\ ~sends[1].accepted
    /\ sends[2].accepted
    /\ sends[3].accepted
    /\ tfLastError = "Transaction failed on the blockchain"

\* The network fee call of quote q yielded nothing: it failed or answered
\* without a usable field.
NetworkYieldedNothing(q) == q.fee[1] = "throw" \/ NoFeeFields(q.fee)

\* C29: fee sources are tried in a fixed order: every resolution calls the
\* network fee endpoint, the oracle is consulted only when the network call
\* failed or had no usable field, and the default table gives the price only
\* when the network yielded nothing and the oracle was consulted and yielded
\* nothing either.
C29_SourcesInOrder ==
    \A k \in 1..Len(quotes) :
        LET q == quotes[k] IN
        /\ q.feeDataCalls = 1
        /\ q.asked => NetworkYieldedNothing(q)
        /\ q.source = "network" => ~NetworkYieldedNothing(q)
        /\ q.source = "oracle" => q.asked
        /\ q.source = "table" => NetworkYieldedNothing(q) /\ q.asked

\* The distributable pool of the plan in ret, as its revision computes it.
PlannedPool ==
    IF ret.op = "plan" THEN ArgsAvailable
    ELSE args.balance - FixedGasReserve * Len(args.dests)

\* The weights the plan in ret was built with sum to at most 100.
PlannedWeightsAtMost100 ==
    \/ ret.op = "plan" /\ args.method = "equal"
    \/ SumSeq(args.dests) <= 10000

\* C30: every plan is jointly affordable: for weights summing to at most 100
\* the planned amounts plus the maximum fee of all N instructions,
\* N x 21000 x maxFeePerGas, do not exceed the balance read at planning
\* time.  Plans whose amounts exceed the pool through the rounding of
\* Number() are left aside.
C30_PlanJointlyAffordable ==
    (/\ ret.op \in {"plan", "planFixed"}
     /\ ret.plan.ok
     /\ PlannedWeightsAtMost100
     /\ SumValues(ret.plan.txs) <= PlannedPool) =>
        SumValues(ret.plan.txs)
            + Len(ret.plan.txs) * GasLimit * ret.plan.txs[1].maxFeePerGas <= args.balance

\* Three times the fee of one simple transfer at the average price the fee
\* oracle resolves from the answers in args.
TripleTransferFee == 3 * GasLimit * getGasPrice(args.fee1, args.eth, "average")

\* C31: the minimum the balance gate requires is the larger of the fixed floor
\* (0.005 ether) and three times the fee of one simple transfer at the
\* current average price: a balance is sufficient only when it reaches both.
C31_ThresholdFollowsFee ==
    (ret.op = "gate" /\ ~ret.check.error) =>
        (ret.check.hasSufficientBalance =>
             /\ args.balance >= MinBalanceWei
             /\ args.balance >= TripleTransferFee)

\* The pool of the plan in ret from the single balance read of its revision:
\* less floor(feeCost x N x 12 / 10) in prepareTransaction, less 0.003 ether
\* for each destination in the fixed-reserve revisions.
SinglePool ==
    IF ret.op = "plan" THEN ArgsAvailable
    ELSE args.balance - RetryGasReserve * Len(args.dests)

\* The weight the plan in ret gives to destination k.
PlannedWeight(k) ==
    PercentageOf(args.dests, k, IF ret.op = "plan" THEN args.method ELSE "percentage")

\* The plan in ret computed an amount for destination k.
HasPlanned(k) == ret.op = "distribute" => ret.plan.txs[k].planned

\* The amount planned or sent for destination k.
PlannedAmount(k) ==
    IF ret.op = "distribute" THEN ret.plan.txs[k].amount ELSE ret.plan.txs[k].value

\* C32: for each destination the amount is floor(pool x weight / 100), as
\* Math.floor computes it, of a pool computed once per account from a single
\* balance read, so destinations of equal weight get equal amounts whatever
\* their position and whatever happened to earlier transfers.
C32_AmountFromSinglePool ==
    (ret.op \in {"plan", "planFixed", "distribute"} /\ ret.plan.ok) =>
        \A k \in {d \in 1..Len(ret.plan.txs) : HasPlanned(d)} :
            /\ PlannedAmount(k) = AmountForWallet(SinglePool, PlannedWeight(k))
            /\ \A l \in {d \in 1..Len(ret.plan.txs) : HasPlanned(d)} :
                   PlannedWeight(k) = PlannedWeight(l) => PlannedAmount(k) = PlannedAmount(l)

\* C33: the cache is refreshed by a single fetch at a time: no two lookups
\* await the oracle together, and a lookup that ran while another was being
\* refreshed made no oracle call of its own and returned the same response.
C33_SingleRefresh ==
    /\ Cardinality(Fetching) <= 1
    /\ \A d \in 1..Len(lookups) : \A c \in lookups[d].during :
           /\ ~lookups[d].fetched
           /\ (lookups[c].pc = "done" /\ lookups[d].pc = "done") =>
                  lookups[d].data = lookups[c].data

\* The price of the requested tier and the price of the slow tier, as the
\* two getGasPrice calls of the plan in ret resolve them.
ArgsFirst == getGasPrice(args.fee1, args.eth, args.speed)

ArgsSlower == getGasPrice(args.fee2, args.eth, "slow")

\* C34: when the price of a non-slow tier is above 100 gwei, the slow price
\* is taken whenever it is at least 20% cheaper, the slow price of exactly
\* 80% included, and otherwise the resolved price is kept (both subject to
\* the 150 gwei ceiling that follows).
C34_SlowerWhenFifthCheaper ==
    (ret.op = "plan" /\ ret.plan.ok) =>
        LET preferred == IF /\ ArgsFirst > 100
                            /\ args.speed # "slow"
                            /\ ArgsSlower * 100 <= ArgsFirst * 80
                         THEN ArgsSlower ELSE ArgsFirst
        IN \A k \in 1..Len(ret.plan.txs) :
               ret.plan.txs[k].maxFeePerGas = IF preferred > 150 THEN 50 ELSE preferred

\* C35: an outcome is a confirmed success (success, not pending) only when
\* the wait ended with a real receipt whose status is not 0; and the retrying
\* transferFunds returns only after a receipt of status 1 for its last send.
C35_ConfirmedMeansMined ==
    /\ \A o \in AllOutcomes :
           (o.success /\ ~o.pending) => o.via = "receipt" /\ o.receiptStatus # 0
    /\ (tfPc = "returned" /\ ~IsScript) =>
           [send |-> Len(sends), status |-> 1] \in mined

\* C36: while the startTransfer call of the handler is still executing, the
\* running flag is set, so that the caller cannot start a second call for
\* the same accounts, also after the caller's request timeout has fired.
C36_RunningWhileExecuting ==
    (caller = "handler" /\ requests # <<>> /\ pc # "done") => IsRunning

\* C37: confirmation polling always ends: whatever the provider answers,
\* sendPreparedTransaction comes to its end with nothing left to send, and
\* every step that takes an instruction off the list records one result:
\* a receipt, a pending placeholder, a timeout marker or a failure.
C37_PollingEnds ==
    /\ <>(wPc = "done" /\ wTodo = 0)
    /\ [][/\ Len(wResults') + wTodo' = Len(wResults) + wTodo
          /\ wElapsed' >= wElapsed \/ wPc' = "first"]_vars
    /\ [](\A r \in 1..Len(wResults) :
              wResults[r].via \in {"receipt", "found", "missing", "none"})

\* C37 witness: two instructions, the first polled without an answer until
\* the timeout and ended with the timeout marker, the second likewise
\* through errors and ended with the pending placeholder.
C37_Witness ==
    /\ wPc = "done"
    /\ Len(wResults) = 2
    /\ wResults[1].via = "missing"
    /\ wResults[2].via = "found"
    /\ wLast = "error"
    /\ wElapsed >= WaitTimeout

\* C38: startTransfer does not throw to its caller: when the RPC
\* configuration is missing it returns one record per input key, each with
\* status error and the error message, and nothing was read or broadcast.
C38_MissingRpcReturnsErrors ==
    (~rpcConfigured /\ pc = "done") =>
        /\ Len(results) = Len(privateKeys)
        /\ \A k \in 1..Len(results) :
               /\ results[k].status = "error"
               /\ results[k].error = "INFURA_PROJECT_ID is not set"
        /\ preparedData = <<>>
        /\ planLog = <<>>
        /\ broadcasts = <<>>

\* C38 witness: a direct call with two keys and no RPC configuration has
\* returned its two error records.
C38_Witness ==
    /\ ~rpcConfigured
    /\ caller = "direct"
    /\ pc = "done"
    /\ Len(privateKeys) = 2
    /\ Len(results) = 2
    /\ results[2].status = "error"

====
